---- MODULE Spec2Model ----
(***************************************************************************)
(* State-machine model of renderer/gl/glContext.cc (House3D): the four GL  *)
(* context backends (GLFWContext, EGLContext, GLXHeadlessContext,          *)
(* CGLHeadlessContext), their constructors and destructors taken one       *)
(* native call at a time, the process-wide counter NUM_EGLCONTEXT_ALIVE    *)
(* and the parts of the native libraries' state the calls act on.          *)
(*                                                                         *)
(* Every context object i is built, used and destroyed by its own thread   *)
(* (thread i); threads interleave between native calls.  A native call's   *)
(* outcome is chosen nondeterministically among the outcomes its API       *)
(* documents.  error_exit() ends the process: nothing runs afterwards.     *)
(***************************************************************************)
EXTENDS Integers, Sequences, FiniteSets, TLC

\* ---------------------------------------------------------------- bounds
\* number of context objects (and threads) a behaviour may create
MaxInst == 2
\* largest device count eglQueryDevicesEXT reports in the model (<= MAX_DEVICES)
MaxEnum == 3
\* largest num_config eglChooseConfig reports in the model
MaxConfigs == 2
\* largest number of framebuffer configurations glXChooseFBConfig returns
MaxFbc == 1
\* geometry: widths 1..MaxW, heights 1..MaxH
MaxW == 2
MaxH == 1
\* printInfo() calls recorded per context
MaxPrint == 1

\* ---------------------------------------------------------------- program constants
MAX_DEVICES == 16

Inst == 1..MaxInst
Devices == 0..(MaxEnum - 1)
Geometries == {<<w, h>> : w \in 1..MaxW, h \in 1..MaxH}
\* values a caller may pass as `int device` (negative ones included)
DeviceArgs == (0 - 1)..MaxEnum
\* EGL_NO_DISPLAY
NoDisplay == 0 - 1

Min(a, b) == IF a < b THEN a ELSE b

VARIABLES
  proc,      \* "running" | "exited" (error_exit) | "crashed" (fault)
  pc,        \* pc[i]: where thread i is in the constructor/destructor of object i
  backend,   \* backend[i]: class of object i, "none" before it is constructed
  self,      \* self[i]: the member fields of object i
  loc,       \* loc[i]: locals of the running constructor of object i
  calls,     \* calls[i]: native calls object i's constructor/destructor issued, in order
  current,   \* current[i]: object i's context is the current context of thread i
  viewport,  \* viewport[i]: arguments of the last glViewport issued through object i
  counter,   \* NUM_EGLCONTEXT_ALIVE
  glfwLib,   \* the GLFW library is initialized (process-wide)
  eglInit,   \* eglInit[d]: the EGLDisplay of physical device d is initialized
  diag       \* diag[i]: printInfo() reports written through object i

vars == <<proc, pc, backend, self, loc, calls, current, viewport, counter,
          glfwLib, eglInit, diag>>

\* ---------------------------------------------------------------- objects
\* A native handle: "null" (NULL, None, EGL_NO_CONTEXT), "live", "destroyed".
NoFields ==
  [win_size_ |-> <<0, 0>>, window_ |-> "null", eglDpy_ |-> NoDisplay,
   eglCtx_ |-> "null", dpy_ |-> "null", context_ |-> "null", pbuffer_ |-> "null"]

\* device: the parameter `device` (overwritten at line 181); arg: its value at entry;
\* acc: the device files readable while this constructor runs; nfbc:
\* numberOfFramebufferConfigurations; fn: glXCreateContextAttribsARB; pix: the
\* CGLPixelFormatObj.
NoLocals ==
  [device |-> 0, arg |-> 0, numDevices |-> 0, acc |-> {}, visible_devices |-> <<>>,
   succ |-> FALSE, numConfigs |-> 0, nfbc |-> 0, fn |-> "null", pix |-> "null"]

Init ==
  /\ proc = "running"
  /\ pc = [i \in Inst |-> "none"]
  /\ backend = [i \in Inst |-> "none"]
  /\ self = [i \in Inst |-> NoFields]
  /\ loc = [i \in Inst |-> NoLocals]
  /\ calls = [i \in Inst |-> <<>>]
  /\ current = [i \in Inst |-> FALSE]
  /\ viewport = [i \in Inst |-> <<>>]
  /\ counter = 0
  /\ glfwLib = FALSE
  /\ eglInit = [d \in Devices |-> FALSE]
  /\ diag = [i \in Inst |-> 0]

\* ---------------------------------------------------------------- helpers
At(i, p) == proc = "running" /\ pc[i] = p
Goto(i, p) == pc' = [pc EXCEPT ![i] = p]
Log(i, names) == calls' = [calls EXCEPT ![i] = @ \o names]

\* error_exit(msg): the process ends where it stands.  `names` are the native
\* calls the statement issued before it (a failed one is logged with ":fail").
Abort(i, names) ==
  /\ proc' = "exited"
  /\ Log(i, names \o <<"error_exit">>)
  /\ UNCHANGED <<pc, backend, current, viewport, counter, glfwLib, eglInit, diag>>

error_exit(i, names) ==
  /\ Abort(i, names)
  /\ UNCHANGED <<self, loc>>

\* a fault (null dereference, call through a null pointer): the process dies.
Crash(i, names) ==
  /\ proc' = "crashed"
  /\ Log(i, names)
  /\ UNCHANGED <<pc, backend, self, loc, current, viewport, counter, glfwLib, eglInit, diag>>

\* GLContext{win_size}: the base constructor stores the geometry.
\* Objects are numbered in the order their construction starts.
New(i, b, g, first) ==
  /\ At(i, "none")
  /\ \A j \in 1..(i - 1) : backend[j] # "none"
  /\ backend' = [backend EXCEPT ![i] = b]
  /\ self' = [self EXCEPT ![i].win_size_ = g]
  /\ Goto(i, first)

\* ---------------------------------------------------------------- GLContext
\* init() with width and height exchanged
ViewportArgsSwapped(ws) == <<0, 0, ws[2], ws[1]>>

\* void GLContext::init(): glViewport(0, 0, win_size_.w, win_size_.h)
ViewportArgs(ws) == <<0, 0, ws[1], ws[2]>>

\* this->init() as the last statement of every constructor; the constructor
\* returns and its locals end
CtorInit(i) ==
  /\ At(i, "init")
  /\ viewport' = [viewport EXCEPT ![i] = ViewportArgs(self[i].win_size_)]
  /\ Log(i, <<"glViewport">>)
  /\ loc' = [loc EXCEPT ![i] = NoLocals]
  /\ Goto(i, "alive")
  /\ UNCHANGED <<proc, backend, self, current, counter, glfwLib, eglInit, diag>>

\* init() called again by the owner of a constructed context
GLContext_init(i) ==
  /\ At(i, "alive")
  /\ viewport' = [viewport EXCEPT ![i] = ViewportArgs(self[i].win_size_)]
  /\ UNCHANGED <<proc, pc, backend, self, loc, calls, current, counter, glfwLib, eglInit, diag>>

\* The context handle object i owns.
CtxHandle(i) ==
  CASE backend[i] = "GLFW" -> self[i].window_
    [] backend[i] = "EGL" -> self[i].eglCtx_
    [] OTHER -> self[i].context_

\* glGetString() answers only when a usable context is current on the calling thread.
HasCurrent(i) == current[i] /\ CtxHandle(i) = "live"

\* void GLContext::printInfo(): m_assert(glGetString(GL_VERSION)), then the report
GLContext_printInfo(i) ==
  /\ At(i, "alive")
  /\ diag[i] < MaxPrint
  /\ \/ /\ HasCurrent(i)
        /\ diag' = [diag EXCEPT ![i] = @ + 1]
        /\ UNCHANGED <<proc, pc, backend, self, loc, calls, current, viewport, counter,
                       glfwLib, eglInit>>
     \/ /\ ~HasCurrent(i)
        /\ Crash(i, <<>>)

\* ---------------------------------------------------------------- GLFWContext
NewGLFWContext(i) ==
  /\ \E g \in Geometries : New(i, "GLFW", g, "glfw_init")
  /\ UNCHANGED <<proc, loc, calls, current, viewport, counter, glfwLib, eglInit, diag>>

\* glfwInit() (its result is not looked at) and the window hints
GLFW_glfwInit(i) ==
  /\ At(i, "glfw_init")
  /\ \E ok \in BOOLEAN : glfwLib' = (glfwLib \/ ok)
  /\ Log(i, <<"glfwInit">>)
  /\ Goto(i, "glfw_window")
  /\ UNCHANGED <<proc, backend, self, loc, current, viewport, counter, eglInit, diag>>

\* window_ = glfwCreateWindow(...); if (window_ == nullptr) error_exit(...)
GLFW_glfwCreateWindow(i) ==
  /\ At(i, "glfw_window")
  /\ \/ /\ glfwLib
        /\ self' = [self EXCEPT ![i].window_ = "live"]
        /\ Log(i, <<"glfwCreateWindow">>)
        /\ Goto(i, "glfw_current")
        /\ UNCHANGED <<proc, backend, loc, current, viewport, counter, glfwLib, eglInit, diag>>
     \/ error_exit(i, <<"glfwCreateWindow:fail">>)

\* glfwMakeContextCurrent(window_): returns nothing; a failure is only reported
\* through the GLFW error callback.
GLFW_glfwMakeContextCurrent(i) ==
  /\ At(i, "glfw_current")
  /\ \/ /\ glfwLib /\ self[i].window_ = "live"
        /\ current' = [current EXCEPT ![i] = TRUE]
        /\ Log(i, <<"glfwMakeContextCurrent">>)
     \/ /\ UNCHANGED current
        /\ Log(i, <<"glfwMakeContextCurrent:fail">>)
  /\ Goto(i, "init")
  /\ UNCHANGED <<proc, backend, self, loc, viewport, counter, glfwLib, eglInit, diag>>

\* a destructor that terminates the library only with the last windowed context
GLFW_Destroy_scoped(i) ==
  /\ At(i, "alive") /\ backend[i] = "GLFW"
  /\ LET last == \A j \in Inst \ {i} : ~(backend[j] = "GLFW" /\ pc[j] = "alive") IN
     /\ self' = [self EXCEPT ![i].window_ = "destroyed"]
     /\ glfwLib' = (glfwLib /\ ~last)
  /\ current' = [current EXCEPT ![i] = FALSE]
  /\ Log(i, <<"glfwTerminate">>)
  /\ Goto(i, "destroyed")
  /\ UNCHANGED <<proc, backend, loc, viewport, counter, eglInit, diag>>

\* The windows glfwTerminate() destroys: every window of the process.
glfwTerminate(s) ==
  [j \in Inst |-> IF s[j].window_ = "live" THEN [s[j] EXCEPT !.window_ = "destroyed"]
                  ELSE s[j]]

\* GLFWContext::~GLFWContext(): glfwTerminate()
GLFW_Destroy(i) ==
  /\ At(i, "alive") /\ backend[i] = "GLFW"
  /\ self' = IF glfwLib THEN glfwTerminate(self) ELSE self
  /\ current' = IF glfwLib THEN [current EXCEPT ![i] = FALSE] ELSE current
  /\ glfwLib' = FALSE
  /\ Log(i, <<"glfwTerminate">>)
  /\ Goto(i, "destroyed")
  /\ UNCHANGED <<proc, backend, loc, viewport, counter, eglInit, diag>>

\* ---------------------------------------------------------------- EGLContext
NewEGLContext(i) ==
  /\ \E g \in Geometries : New(i, "EGL", g, "egl_inc")
  /\ \E d \in DeviceArgs : loc' = [loc EXCEPT ![i].device = d, ![i].arg = d]
  /\ UNCHANGED <<proc, calls, current, viewport, counter, glfwLib, eglInit, diag>>

\* a plain load and store in place of the atomic: of two threads at the
\* increment together, one overwrites the other's update
fetch_add_lost(c, i) == IF \E j \in Inst \ {i} : pc[j] = "egl_inc" THEN c ELSE c + 1

\* std::atomic_int::fetch_add(1) by thread i: one indivisible read-modify-write
fetch_add(c, i) == c + 1

\* a constructor entry that does not count the context
EGL_fetch_add_none(i) ==
  /\ At(i, "egl_inc")
  /\ Goto(i, "egl_getproc")
  /\ UNCHANGED <<proc, backend, self, loc, calls, current, viewport, counter, glfwLib,
                 eglInit, diag>>

\* NUM_EGLCONTEXT_ALIVE.fetch_add(1): the first statement of the constructor
EGL_fetch_add(i) ==
  /\ At(i, "egl_inc")
  /\ counter' = fetch_add(counter, i)
  /\ Goto(i, "egl_getproc")
  /\ UNCHANGED <<proc, backend, self, loc, calls, current, viewport, glfwLib, eglInit, diag>>

\* eglGetProcAddress("eglQueryDevicesEXT"), eglGetProcAddress("eglGetPlatformDisplayEXT")
EGL_eglGetProcAddress(i) ==
  /\ At(i, "egl_getproc")
  /\ \/ /\ Log(i, <<"eglGetProcAddress">>)
        /\ Goto(i, "egl_query")
        /\ UNCHANGED <<proc, backend, self, loc, current, viewport, counter, glfwLib,
                       eglInit, diag>>
     \/ error_exit(i, <<"eglGetProcAddress:fail">>)

\* eglQueryDevicesEXT(MAX_DEVICES, eglDevs, &numDevices): its result is not looked
\* at.  acc is the set of /dev/nvidia<d> files this process can open just now.
EGL_eglQueryDevicesEXT(i) ==
  /\ At(i, "egl_query")
  /\ \E n \in 0..Min(MAX_DEVICES, MaxEnum) :
       \E S \in SUBSET (0..(n - 1)) :
         loc' = [loc EXCEPT ![i].numDevices = n, ![i].acc = S]
  /\ Log(i, <<"eglQueryDevicesEXT">>)
  /\ Goto(i, "egl_probe")
  /\ UNCHANGED <<proc, backend, self, current, viewport, counter, glfwLib, eglInit, diag>>

\* bool check_nvidia_readable(int device): open("/dev/nvidia<device>", O_RDONLY) != -1
check_nvidia_readable(device, acc) == device \in acc

\* the loop with the readable devices pushed to the front
RECURSIVE ProbeLoopDesc(_, _, _, _)
ProbeLoopDesc(i, numDevices, acc, visible_devices) ==
  IF i < numDevices
  THEN ProbeLoopDesc(i + 1, numDevices, acc,
                     IF check_nvidia_readable(i, acc) THEN <<i>> \o visible_devices
                     ELSE visible_devices)
  ELSE visible_devices

\* for (int i = 0; i < numDevices; ++i) if (check_nvidia_readable(i)) push_back(i)
RECURSIVE ProbeLoop(_, _, _, _)
ProbeLoop(i, numDevices, acc, visible_devices) ==
  IF i < numDevices
  THEN ProbeLoop(i + 1, numDevices, acc,
                 IF check_nvidia_readable(i, acc) THEN Append(visible_devices, i)
                 ELSE visible_devices)
  ELSE visible_devices

\* the guard as `numDevices >= 1`
MustProbeAlways(numDevices) == numDevices >= 1

\* the guard `numDevices > 1`: the devices are probed one by one
MustProbe(numDevices) == numDevices > 1

\* the open() calls the loop issues
RECURSIVE Opens(_)
Opens(n) == IF n <= 0 THEN <<>> ELSE Opens(n - 1) \o <<"open">>

\* lines 157-170: build visible_devices
EGL_visible_devices(i) ==
  /\ At(i, "egl_probe")
  /\ LET n == loc[i].numDevices IN
     \/ /\ MustProbe(n)
        /\ loc' = [loc EXCEPT ![i].visible_devices = ProbeLoop(0, n, loc[i].acc, <<>>)]
        /\ Log(i, Opens(n))
        /\ Goto(i, "egl_select")
        /\ UNCHANGED <<proc, backend, self, current, viewport, counter, glfwLib, eglInit, diag>>
     \/ /\ ~MustProbe(n) /\ n = 1
        /\ loc' = [loc EXCEPT ![i].visible_devices = <<0>>]
        /\ Goto(i, "egl_select")
        /\ UNCHANGED <<proc, backend, self, calls, current, viewport, counter, glfwLib,
                       eglInit, diag>>
     \/ /\ ~MustProbe(n) /\ n # 1
        /\ error_exit(i, <<>>)

\* if (device >= static_cast<int>(visible_devices.size())) error_exit(...)
DeviceOutOfRange(device, visible_devices) == device >= Len(visible_devices)

\* values an out-of-bounds read of an int can yield
GarbageInts == DeviceArgs

\* lines 172-182: reject the index or remap it through visible_devices
EGL_select_device(i) ==
  /\ At(i, "egl_select")
  /\ LET device == loc[i].device
         vis == loc[i].visible_devices IN
     \/ /\ DeviceOutOfRange(device, vis)
        /\ error_exit(i, <<>>)
     \/ /\ ~DeviceOutOfRange(device, vis)
        /\ \/ /\ Len(vis) = loc[i].numDevices
              /\ UNCHANGED loc
           \/ /\ Len(vis) # loc[i].numDevices /\ device >= 0
              /\ loc' = [loc EXCEPT ![i].device = vis[device + 1]]
           \/ /\ Len(vis) # loc[i].numDevices /\ device < 0
              /\ \E x \in GarbageInts : loc' = [loc EXCEPT ![i].device = x]
        /\ Goto(i, "egl_getdisplay")
        /\ UNCHANGED <<proc, backend, self, calls, current, viewport, counter, glfwLib,
                       eglInit, diag>>

\* eglDpy_ = eglGetPlatformDisplayEXT(EGL_PLATFORM_DEVICE_EXT, eglDevs[device], 0);
\* the block's locals end here.  The EGLDisplay of a device is one handle per
\* device, named by the device's index.  eglDevs[device] outside 0..numDevices-1
\* is an indeterminate handle.
EGL_eglGetPlatformDisplayEXT(i) ==
  /\ At(i, "egl_getdisplay")
  /\ LET device == loc[i].device
         inRange == 0 <= device /\ device < loc[i].numDevices IN
     \E dpy \in {NoDisplay} \cup Devices :
       /\ inRange => dpy \in {NoDisplay, device}
       /\ self' = [self EXCEPT ![i].eglDpy_ = dpy]
  /\ loc' = [loc EXCEPT ![i] = NoLocals]
  /\ Log(i, <<"eglGetPlatformDisplayEXT">>)
  /\ Goto(i, "egl_initialize")
  /\ UNCHANGED <<proc, backend, current, viewport, counter, glfwLib, eglInit, diag>>

\* auto checkError = [](EGLBoolean succ) {...}: eglGetError() != EGL_SUCCESS or !succ
checkError(err, succ) == err # "EGL_SUCCESS" \/ ~succ

\* succ = eglInitialize(eglDpy_, &major, &minor); if (!succ) error_exit; checkError(succ)
EGL_eglInitialize(i) ==
  /\ At(i, "egl_initialize")
  /\ \/ /\ self[i].eglDpy_ # NoDisplay
        /\ ~checkError("EGL_SUCCESS", TRUE)
        /\ eglInit' = [eglInit EXCEPT ![self[i].eglDpy_] = TRUE]
        /\ loc' = [loc EXCEPT ![i].succ = TRUE]
        /\ Log(i, <<"eglInitialize">>)
        /\ Goto(i, "egl_choose")
        /\ UNCHANGED <<proc, backend, self, current, viewport, counter, glfwLib, diag>>
     \/ error_exit(i, <<"eglInitialize:fail">>)

\* the check as `numConfigs < 1`
ConfigMismatchZero(numConfigs) == numConfigs < 1

\* if (numConfigs != 1) error_exit(...)
ConfigMismatch(numConfigs) == numConfigs # 1

\* succ = eglChooseConfig(eglDpy_, EGLconfigAttribs, &eglCfg, 1, &numConfigs);
\* checkError(succ); if (numConfigs != 1) error_exit(...)
EGL_eglChooseConfig(i) ==
  /\ At(i, "egl_choose")
  /\ \/ /\ eglInit[self[i].eglDpy_]
        /\ \E n \in 0..MaxConfigs :
             /\ loc' = [loc EXCEPT ![i].numConfigs = n]
             /\ \/ /\ ~ConfigMismatch(n)
                   /\ Log(i, <<"eglChooseConfig">>)
                   /\ Goto(i, "egl_bind")
                   /\ UNCHANGED <<proc, backend, self, current, viewport, counter, glfwLib,
                                  eglInit, diag>>
                \/ /\ ConfigMismatch(n)
                   /\ Abort(i, <<"eglChooseConfig">>)
                   /\ UNCHANGED self
     \/ /\ checkError("EGL_ERROR", FALSE)
        /\ error_exit(i, <<"eglChooseConfig:fail">>)

\* succ = eglBindAPI(EGL_OPENGL_API); checkError(succ)
EGL_eglBindAPI(i) ==
  /\ At(i, "egl_bind")
  /\ \/ /\ ~checkError("EGL_SUCCESS", TRUE)
        /\ Log(i, <<"eglBindAPI">>)
        /\ Goto(i, "egl_context")
        /\ UNCHANGED <<proc, backend, self, loc, current, viewport, counter, glfwLib,
                       eglInit, diag>>
     \/ /\ checkError("EGL_ERROR", FALSE)
        /\ error_exit(i, <<"eglBindAPI:fail">>)

\* eglCtx_ = eglCreateContext(eglDpy_, eglCfg, 0, NULL); checkError(succ): succ is
\* still eglBindAPI's result, so only eglGetError() can report this call's failure.
EGL_eglCreateContext(i) ==
  /\ At(i, "egl_context")
  /\ \/ /\ eglInit[self[i].eglDpy_]
        /\ ~checkError("EGL_SUCCESS", loc[i].succ)
        /\ self' = [self EXCEPT ![i].eglCtx_ = "live"]
        /\ Log(i, <<"eglCreateContext">>)
        /\ Goto(i, "egl_current")
        /\ UNCHANGED <<proc, backend, loc, current, viewport, counter, glfwLib, eglInit, diag>>
     \/ /\ checkError("EGL_ERROR", loc[i].succ)
        /\ error_exit(i, <<"eglCreateContext:fail">>)

\* succ = eglMakeCurrent(eglDpy_, eglSurf, eglSurf, eglCtx_); if (!succ) error_exit
EGL_eglMakeCurrent(i) ==
  /\ At(i, "egl_current")
  /\ \/ /\ eglInit[self[i].eglDpy_] /\ self[i].eglCtx_ = "live"
        /\ current' = [current EXCEPT ![i] = TRUE]
        /\ Log(i, <<"eglMakeCurrent">>)
        /\ Goto(i, "init")
        /\ UNCHANGED <<proc, backend, self, loc, viewport, counter, glfwLib, eglInit, diag>>
     \/ error_exit(i, <<"eglMakeCurrent:fail">>)

\* a destructor that terminates the display and destroys the context after it
EGL_eglDestroyContext_after(i) ==
  /\ At(i, "alive") /\ backend[i] = "EGL"
  /\ eglInit' = [eglInit EXCEPT ![self[i].eglDpy_] = FALSE]
  /\ self' = [self EXCEPT ![i].eglCtx_ = "destroyed"]
  /\ Log(i, <<"eglTerminate", "eglDestroyContext">>)
  /\ Goto(i, "destroyed")
  /\ UNCHANGED <<proc, backend, loc, current, viewport, counter, glfwLib, diag>>

\* EGLContext::~EGLContext(), first statement: eglDestroyContext(eglDpy_, eglCtx_).
\* (The fetch_sub(1) before it is commented out in the source.)
EGL_eglDestroyContext(i) ==
  /\ At(i, "alive") /\ backend[i] = "EGL"
  /\ self' = [self EXCEPT ![i].eglCtx_ = "destroyed"]
  /\ Log(i, <<"eglDestroyContext">>)
  /\ Goto(i, "egl_terminate")
  /\ UNCHANGED <<proc, backend, loc, current, viewport, counter, glfwLib, eglInit, diag>>

\* second statement: eglTerminate(eglDpy_)
EGL_eglTerminate(i) ==
  /\ At(i, "egl_terminate")
  /\ eglInit' = [eglInit EXCEPT ![self[i].eglDpy_] = FALSE]
  /\ Log(i, <<"eglTerminate">>)
  /\ Goto(i, "destroyed")
  /\ UNCHANGED <<proc, backend, self, loc, current, viewport, counter, glfwLib, diag>>

\* ---------------------------------------------------------------- GLXHeadlessContext
NewGLXHeadlessContext(i) ==
  /\ \E g \in Geometries : New(i, "GLX", g, "glx_open")
  /\ UNCHANGED <<proc, loc, calls, current, viewport, counter, glfwLib, eglInit, diag>>

\* dpy_ = XOpenDisplay(NULL); if (dpy_ == nullptr) error_exit(...)
GLX_XOpenDisplay(i) ==
  /\ At(i, "glx_open")
  /\ \/ /\ self' = [self EXCEPT ![i].dpy_ = "live"]
        /\ Log(i, <<"XOpenDisplay">>)
        /\ Goto(i, "glx_fbc")
        /\ UNCHANGED <<proc, backend, loc, current, viewport, counter, glfwLib, eglInit, diag>>
     \/ error_exit(i, <<"XOpenDisplay:fail">>)

\* GLXFBConfig* fbc = glXChooseFBConfig(dpy_, ..., &numberOfFramebufferConfigurations):
\* fbc is NULL when no configuration matches; nothing is checked.
GLX_glXChooseFBConfig(i) ==
  /\ At(i, "glx_fbc")
  /\ \E n \in 0..MaxFbc : loc' = [loc EXCEPT ![i].nfbc = n]
  /\ Log(i, <<"glXChooseFBConfig">>)
  /\ Goto(i, "glx_getproc")
  /\ UNCHANGED <<proc, backend, self, current, viewport, counter, glfwLib, eglInit, diag>>

\* glXCreateContextAttribsARB = glXGetProcAddressARB("glXCreateContextAttribsARB")
GLX_glXGetProcAddressARB(i) ==
  /\ At(i, "glx_getproc")
  /\ \E f \in {"null", "live"} : loc' = [loc EXCEPT ![i].fn = f]
  /\ Log(i, <<"glXGetProcAddressARB">>)
  /\ Goto(i, "glx_context")
  /\ UNCHANGED <<proc, backend, self, current, viewport, counter, glfwLib, eglInit, diag>>

\* a constructor that creates the pbuffer first and the context after it
GLX_glXCreateContextAttribsARB_late(i) ==
  /\ At(i, "glx_context")
  /\ loc[i].fn = "live" /\ loc[i].nfbc > 0
  /\ self' = [self EXCEPT ![i].pbuffer_ = "live", ![i].context_ = "live"]
  /\ Log(i, <<"glXCreatePbuffer", "glXCreateContextAttribsARB">>)
  /\ Goto(i, "glx_sync")
  /\ UNCHANGED <<proc, backend, loc, current, viewport, counter, glfwLib, eglInit, diag>>

\* context_ = glXCreateContextAttribsARB(dpy_, fbc[0], 0, True, GLXcontextAttribs).
\* A null function pointer or a null fbc makes the statement fault, or (the read
\* of fbc[0] being undefined) go on with an indeterminate configuration.
GLX_glXCreateContextAttribsARB(i) ==
  /\ At(i, "glx_context")
  /\ \/ /\ loc[i].fn = "live"
        /\ \E h \in {"null", "live"} :
             /\ h = "live" => loc[i].nfbc > 0
             /\ self' = [self EXCEPT ![i].context_ = h]
             /\ Log(i, <<IF h = "live" THEN "glXCreateContextAttribsARB"
                         ELSE "glXCreateContextAttribsARB:fail">>)
        /\ Goto(i, "glx_pbuffer")
        /\ UNCHANGED <<proc, backend, loc, current, viewport, counter, glfwLib, eglInit, diag>>
     \/ /\ loc[i].fn = "null" \/ loc[i].nfbc = 0
        /\ Crash(i, <<>>)

\* pbuffer_ = glXCreatePbuffer(dpy_, fbc[0], GLXpbufferAttribs): nothing is checked
GLX_glXCreatePbuffer(i) ==
  /\ At(i, "glx_pbuffer")
  /\ \/ /\ \E h \in {"null", "live"} :
             /\ h = "live" => loc[i].nfbc > 0
             /\ self' = [self EXCEPT ![i].pbuffer_ = h]
             /\ Log(i, <<IF h = "live" THEN "glXCreatePbuffer" ELSE "glXCreatePbuffer:fail">>)
        /\ Goto(i, "glx_sync")
        /\ UNCHANGED <<proc, backend, loc, current, viewport, counter, glfwLib, eglInit, diag>>
     \/ /\ loc[i].nfbc = 0
        /\ Crash(i, <<>>)

\* XFree(fbc); XSync(dpy_, False)
GLX_XSync(i) ==
  /\ At(i, "glx_sync")
  /\ Log(i, <<"XFree", "XSync">>)
  /\ Goto(i, "glx_current")
  /\ UNCHANGED <<proc, backend, self, loc, current, viewport, counter, glfwLib, eglInit, diag>>

\* What glXMakeContextCurrent(dpy, draw, draw, ctx) can answer: a context with its
\* drawable may be bound; no context with no drawable releases the binding and
\* succeeds; any other pairing is a BadMatch.
glXMakeContextCurrentResults(draw, ctx) ==
  IF ctx = "live" /\ draw = "live" THEN {"bound", "failed"}
  ELSE IF ctx = "null" /\ draw = "null" THEN {"released"}
  ELSE {"failed"}

\* if (!glXMakeContextCurrent(dpy_, pbuffer_, pbuffer_, context_)) error_exit(...)
GLX_glXMakeContextCurrent(i) ==
  /\ At(i, "glx_current")
  /\ \E r \in glXMakeContextCurrentResults(self[i].pbuffer_, self[i].context_) :
       \/ /\ r # "failed"
          /\ current' = [current EXCEPT ![i] = (r = "bound")]
          /\ Log(i, <<IF r = "bound" THEN "glXMakeContextCurrent"
                      ELSE "glXMakeContextCurrent:none">>)
          /\ Goto(i, "init")
          /\ UNCHANGED <<proc, backend, self, loc, viewport, counter, glfwLib, eglInit, diag>>
       \/ /\ r = "failed"
          /\ error_exit(i, <<"glXMakeContextCurrent:fail">>)

\* a destroy call on a handle: a live handle is destroyed, anything else stays
Destroyed(h) == IF h = "live" THEN "destroyed" ELSE h

\* a destructor that goes from releasing the binding straight to the pbuffer
GLX_release_current_skip(i) ==
  /\ At(i, "alive") /\ backend[i] = "GLX"
  /\ current' = [current EXCEPT ![i] = FALSE]
  /\ Log(i, <<"glXMakeContextCurrent(None)">>)
  /\ Goto(i, "glx_d_pbuffer")
  /\ UNCHANGED <<proc, backend, self, loc, viewport, counter, glfwLib, eglInit, diag>>

\* ~GLXHeadlessContext(): glXMakeContextCurrent(dpy_, None, None, NULL)
GLX_release_current(i) ==
  /\ At(i, "alive") /\ backend[i] = "GLX"
  /\ current' = [current EXCEPT ![i] = FALSE]
  /\ Log(i, <<"glXMakeContextCurrent(None)">>)
  /\ Goto(i, "glx_d_context")
  /\ UNCHANGED <<proc, backend, self, loc, viewport, counter, glfwLib, eglInit, diag>>

\* glXDestroyContext(dpy_, context_)
GLX_glXDestroyContext(i) ==
  /\ At(i, "glx_d_context")
  /\ self' = [self EXCEPT ![i].context_ = Destroyed(@)]
  /\ Log(i, <<"glXDestroyContext">>)
  /\ Goto(i, "glx_d_pbuffer")
  /\ UNCHANGED <<proc, backend, loc, current, viewport, counter, glfwLib, eglInit, diag>>

\* glXDestroyPbuffer(dpy_, pbuffer_)
GLX_glXDestroyPbuffer(i) ==
  /\ At(i, "glx_d_pbuffer")
  /\ self' = [self EXCEPT ![i].pbuffer_ = Destroyed(@)]
  /\ Log(i, <<"glXDestroyPbuffer">>)
  /\ Goto(i, "glx_d_display")
  /\ UNCHANGED <<proc, backend, loc, current, viewport, counter, glfwLib, eglInit, diag>>

\* XCloseDisplay(dpy_)
GLX_XCloseDisplay(i) ==
  /\ At(i, "glx_d_display")
  /\ self' = [self EXCEPT ![i].dpy_ = Destroyed(@)]
  /\ Log(i, <<"XCloseDisplay">>)
  /\ Goto(i, "destroyed")
  /\ UNCHANGED <<proc, backend, loc, current, viewport, counter, glfwLib, eglInit, diag>>

\* ---------------------------------------------------------------- CGLHeadlessContext
NewCGLHeadlessContext(i) ==
  /\ \E g \in Geometries : New(i, "CGL", g, "cgl_pix")
  /\ UNCHANGED <<proc, loc, calls, current, viewport, counter, glfwLib, eglInit, diag>>

\* err = CGLChoosePixelFormat(CGLAttribs, &pix, &num); checkError(err)
CGL_CGLChoosePixelFormat(i) ==
  /\ At(i, "cgl_pix")
  /\ \/ /\ loc' = [loc EXCEPT ![i].pix = "live"]
        /\ Log(i, <<"CGLChoosePixelFormat">>)
        /\ Goto(i, "cgl_context")
        /\ UNCHANGED <<proc, backend, self, current, viewport, counter, glfwLib, eglInit, diag>>
     \/ error_exit(i, <<"CGLChoosePixelFormat:fail">>)

\* err = CGLCreateContext(pix, nullptr, &context_); checkError(err)
CGL_CGLCreateContext(i) ==
  /\ At(i, "cgl_context")
  /\ \/ /\ self' = [self EXCEPT ![i].context_ = "live"]
        /\ Log(i, <<"CGLCreateContext">>)
        /\ Goto(i, "cgl_freepix")
        /\ UNCHANGED <<proc, backend, loc, current, viewport, counter, glfwLib, eglInit, diag>>
     \/ error_exit(i, <<"CGLCreateContext:fail">>)

\* CGLDestroyPixelFormat(pix)
CGL_CGLDestroyPixelFormat(i) ==
  /\ At(i, "cgl_freepix")
  /\ loc' = [loc EXCEPT ![i].pix = Destroyed(@)]
  /\ Log(i, <<"CGLDestroyPixelFormat">>)
  /\ Goto(i, "cgl_current")
  /\ UNCHANGED <<proc, backend, self, current, viewport, counter, glfwLib, eglInit, diag>>

\* err = CGLSetCurrentContext(context_); checkError(err)
CGL_CGLSetCurrentContext(i) ==
  /\ At(i, "cgl_current")
  /\ \/ /\ current' = [current EXCEPT ![i] = TRUE]
        /\ Log(i, <<"CGLSetCurrentContext">>)
        /\ Goto(i, "init")
        /\ UNCHANGED <<proc, backend, self, loc, viewport, counter, glfwLib, eglInit, diag>>
     \/ error_exit(i, <<"CGLSetCurrentContext:fail">>)

\* ~CGLHeadlessContext(): CGLSetCurrentContext(nullptr)
CGL_release_current(i) ==
  /\ At(i, "alive") /\ backend[i] = "CGL"
  /\ current' = [current EXCEPT ![i] = FALSE]
  /\ Log(i, <<"CGLSetCurrentContext(nullptr)">>)
  /\ Goto(i, "cgl_d_context")
  /\ UNCHANGED <<proc, backend, self, loc, viewport, counter, glfwLib, eglInit, diag>>

\* CGLDestroyContext(context_)
CGL_CGLDestroyContext(i) ==
  /\ At(i, "cgl_d_context")
  /\ self' = [self EXCEPT ![i].context_ = Destroyed(@)]
  /\ Log(i, <<"CGLDestroyContext">>)
  /\ Goto(i, "destroyed")
  /\ UNCHANGED <<proc, backend, loc, current, viewport, counter, glfwLib, eglInit, diag>>

\* ---------------------------------------------------------------- next-state relation
Step(i) ==
  \/ CtorInit(i) \/ GLContext_init(i) \/ GLContext_printInfo(i)
  \/ NewGLFWContext(i) \/ GLFW_glfwInit(i) \/ GLFW_glfwCreateWindow(i)
  \/ GLFW_glfwMakeContextCurrent(i) \/ GLFW_Destroy(i)
  \/ NewEGLContext(i) \/ EGL_fetch_add(i) \/ EGL_eglGetProcAddress(i)
  \/ EGL_eglQueryDevicesEXT(i) \/ EGL_visible_devices(i) \/ EGL_select_device(i)
  \/ EGL_eglGetPlatformDisplayEXT(i) \/ EGL_eglInitialize(i) \/ EGL_eglChooseConfig(i)
  \/ EGL_eglBindAPI(i) \/ EGL_eglCreateContext(i) \/ EGL_eglMakeCurrent(i)
  \/ EGL_eglDestroyContext(i) \/ EGL_eglTerminate(i)
  \/ NewGLXHeadlessContext(i) \/ GLX_XOpenDisplay(i) \/ GLX_glXChooseFBConfig(i)
  \/ GLX_glXGetProcAddressARB(i) \/ GLX_glXCreateContextAttribsARB(i)
  \/ GLX_glXCreatePbuffer(i) \/ GLX_XSync(i) \/ GLX_glXMakeContextCurrent(i)
  \/ GLX_release_current(i) \/ GLX_glXDestroyContext(i) \/ GLX_glXDestroyPbuffer(i)
  \/ GLX_XCloseDisplay(i)
  \/ NewCGLHeadlessContext(i) \/ CGL_CGLChoosePixelFormat(i) \/ CGL_CGLCreateContext(i)
  \/ CGL_CGLDestroyPixelFormat(i) \/ CGL_CGLSetCurrentContext(i)
  \/ CGL_release_current(i) \/ CGL_CGLDestroyContext(i)

Next == \E i \in Inst : Step(i)

\* the whole program: up to MaxInst context objects, one thread each
Spec == Init /\ [][Next]_vars

\* the life of a single context object
NextOne == Step(1)

SpecOne == Init /\ [][NextOne]_vars

\* a program built with the windowed backend only
NextGLFW ==
  \E i \in Inst :
    \/ NewGLFWContext(i) \/ GLFW_glfwInit(i) \/ GLFW_glfwCreateWindow(i)
    \/ GLFW_glfwMakeContextCurrent(i) \/ CtorInit(i)
    \/ GLContext_init(i) \/ GLContext_printInfo(i) \/ GLFW_Destroy(i)

SpecGLFW == Init /\ [][NextGLFW]_vars

\* ---------------------------------------------------------------- properties
Last(seq) == seq[Len(seq)]
Reverse(seq) == [k \in 1..Len(seq) |-> seq[Len(seq) + 1 - k]]
Range(seq) == {seq[k] : k \in 1..Len(seq)}
Ascending(seq) == \A a, b \in 1..Len(seq) : a < b => seq[a] < seq[b]
\* the k-th smallest element of S, counting from 0
NthSmallest(S, k) == CHOOSE x \in S : Cardinality({y \in S : y < x}) = k

\* object i's own constructor called error_exit
Exited(i) == proc = "exited" /\ calls[i] # <<>> /\ Last(calls[i]) = "error_exit"
\* the resolver of EGL object i has built visible_devices
Probed(i) == backend[i] = "EGL" /\ pc[i] \in {"egl_select", "egl_getdisplay"}
\* the resolver of EGL object i has accepted the index: loc[i].device is the
\* index of eglDevs[] that line 183 hands to eglGetPlatformDisplayEXT
Selected(i) == backend[i] = "EGL" /\ pc[i] = "egl_getdisplay"

VisibleIsSubsequence(i) ==
  /\ Ascending(loc[i].visible_devices)
  /\ Range(loc[i].visible_devices) \subseteq 0..(loc[i].numDevices - 1)

\* C1 (as stated): for every enumerated count N >= 1 and every set acc of
\* accessible devices, a logical index 0 <= i < |acc| selects the i-th smallest
\* element of acc, an index i >= |acc| never gets past the check (it aborts), and
\* visible_devices is an ascending subsequence of 0..N-1.
C1_Original ==
  \A i \in Inst :
    /\ Probed(i) => VisibleIsSubsequence(i)
    /\ (Selected(i) /\ loc[i].arg >= 0) =>
         /\ loc[i].arg < Cardinality(loc[i].acc)
         /\ loc[i].device = NthSmallest(loc[i].acc, loc[i].arg)

\* C1 (amended): the statement holds for N >= 2; for N = 1 the device is taken as
\* accessible without a probe: visible_devices is <<0>> whatever acc is, logical
\* index 0 selects physical device 0 and every index >= 1 aborts.  An abort at
\* the check happens only for an index >= |visible_devices|.
C1_Resolver ==
  \A i \in Inst :
    /\ Probed(i) => VisibleIsSubsequence(i)
    /\ (Selected(i) /\ loc[i].arg >= 0 /\ loc[i].numDevices >= 2) =>
         /\ loc[i].arg < Cardinality(loc[i].acc)
         /\ loc[i].device = NthSmallest(loc[i].acc, loc[i].arg)
    /\ (Selected(i) /\ loc[i].arg >= 0 /\ loc[i].numDevices = 1) =>
         /\ loc[i].visible_devices = <<0>>
         /\ loc[i].arg = 0 /\ loc[i].device = 0
    /\ (backend[i] = "EGL" /\ pc[i] = "egl_select" /\ Exited(i)) =>
         loc[i].arg >= Len(loc[i].visible_devices)

\* scenario B: N = 3, devices {0, 2} readable, logical 1 resolved to physical 2
C1_Witness ==
  \E i \in Inst :
    /\ Selected(i) /\ loc[i].numDevices = 3 /\ loc[i].acc = {0, 2}
    /\ loc[i].arg = 1 /\ loc[i].device = 2

\* no constructor or destructor is running
Quiescent == proc = "running" /\ \A i \in Inst : pc[i] \in {"none", "alive", "destroyed"}
AliveEGL == {i \in Inst : backend[i] = "EGL" /\ pc[i] = "alive"}

\* C2 (as stated): after k successful EGLContext constructions and j <= k
\* destructions NUM_EGLCONTEXT_ALIVE is k - j, the number of EGL contexts alive.
C2_Original == Quiescent => counter = Cardinality(AliveEGL)

\* the EGL objects whose constructor has got past its first statement
CountedEGL == {i \in Inst : backend[i] = "EGL" /\ pc[i] # "egl_inc"}
\* the EGL objects whose constructor has got past a successful eglMakeCurrent
MadeCurrentEGL ==
  {i \in Inst : backend[i] = "EGL" /\ pc[i] \in {"init", "alive", "egl_terminate", "destroyed"}}

\* C5 (as stated): the counter is incremented after eglMakeCurrent has succeeded
\* and before the viewport is applied, so that a construction which has not got
\* past make-current (or aborted before it) is not counted.
C5_Original == counter = Cardinality(MadeCurrentEGL)

\* C5 (amended): the counter is incremented by the first statement of the
\* constructor, before device resolution and before any native call; a
\* construction that aborts in any later step has been counted.
C5_IncrementFirst ==
  /\ counter = Cardinality(CountedEGL)
  /\ \A i \in Inst : (backend[i] = "EGL" /\ pc[i] = "egl_inc") => calls[i] = <<>>

\* a construction counted although it aborted at device resolution
C5_Witness ==
  \E i \in Inst :
    /\ backend[i] = "EGL" /\ pc[i] = "egl_select" /\ Exited(i)
    /\ counter = 1

EGLAfterChoose == {"egl_choose", "egl_bind", "egl_context", "egl_current", "init"}

\* C6: when eglChooseConfig reports a number of configs other than 1, the
\* constructor aborts there: eglChooseConfig is the last native call it issued,
\* so no eglBindAPI, eglCreateContext or eglMakeCurrent follows.
C6_ConfigMismatchAborts ==
  \A i \in Inst :
    (/\ backend[i] = "EGL" /\ pc[i] \in EGLAfterChoose
     /\ "eglChooseConfig" \in Range(calls[i])
     /\ loc[i].numConfigs # 1) =>
       /\ proc = "exited"
       /\ pc[i] = "egl_choose"
       /\ Len(calls[i]) >= 2
       /\ calls[i][Len(calls[i]) - 1] = "eglChooseConfig"
       /\ Last(calls[i]) = "error_exit"
       /\ Range(calls[i]) \cap {"eglBindAPI", "eglCreateContext", "eglMakeCurrent"} = {}

\* scenario C: two matching configs, aborted
C6_Witness ==
  \E i \in Inst :
    /\ backend[i] = "EGL" /\ pc[i] = "egl_choose" /\ loc[i].numConfigs = 2
    /\ Exited(i)

\* C7: with exactly one enumerated device no device file is opened,
\* visible_devices is <<0>>, logical index 0 selects physical device 0, and no
\* index >= 1 gets as far as the platform-display query.
C7_SingleDevice ==
  \A i \in Inst :
    (Probed(i) /\ loc[i].numDevices = 1) =>
      /\ "open" \notin Range(calls[i])
      /\ loc[i].visible_devices = <<0>>
      /\ (Selected(i) /\ loc[i].arg >= 0) => (loc[i].arg = 0 /\ loc[i].device = 0)
      /\ loc[i].arg >= 1 =>
           /\ pc[i] = "egl_select"
           /\ "eglGetPlatformDisplayEXT" \notin Range(calls[i])

\* scenario A: one device, its file not readable, logical 0 accepted as physical 0
C7_Witness ==
  \E i \in Inst :
    /\ Selected(i) /\ loc[i].numDevices = 1 /\ loc[i].acc = {}
    /\ loc[i].arg = 0 /\ loc[i].device = 0

\* The resource a successful constructor call leaves the object holding ("" for
\* a call that acquires nothing, or whose resource the constructor itself frees).
AcquiredBy(c) ==
  CASE c = "glfwInit" -> "library"
    [] c = "glfwCreateWindow" -> "window"
    [] c \in {"XOpenDisplay", "eglInitialize"} -> "display"
    [] c \in {"eglCreateContext", "glXCreateContextAttribsARB", "CGLCreateContext"} -> "context"
    [] c = "glXCreatePbuffer" -> "drawable"
    [] c \in {"glfwMakeContextCurrent", "eglMakeCurrent", "glXMakeContextCurrent",
              "CGLSetCurrentContext"} -> "current"
    [] OTHER -> ""

\* The resources a destructor call releases, in the order it releases them.
ReleasedBy(c) ==
  CASE c = "glfwTerminate" -> <<"current", "window", "library">>
    [] c \in {"glXMakeContextCurrent(None)", "CGLSetCurrentContext(nullptr)"} -> <<"current">>
    [] c \in {"eglDestroyContext", "glXDestroyContext", "CGLDestroyContext"} -> <<"context">>
    [] c = "glXDestroyPbuffer" -> <<"drawable">>
    [] c \in {"eglTerminate", "XCloseDisplay"} -> <<"display">>
    [] OTHER -> <<>>

RECURSIVE Flatten(_)
Flatten(cs) == IF cs = <<>> THEN <<>> ELSE ReleasedBy(Head(cs)) \o Flatten(Tail(cs))

\* what object i's constructor acquired, in order
Acquired(i) ==
  SelectSeq([k \in 1..Len(calls[i]) |-> AcquiredBy(calls[i][k])], LAMBDA r : r # "")
\* what object i's destructor released of it, in order
Released(i) == SelectSeq(Flatten(calls[i]), LAMBDA r : r \in Range(Acquired(i)))

\* the order in which each destructor's statements release
TeardownOrder(b) ==
  CASE b = "GLFW" -> <<"current", "window", "library">>
    [] b = "EGL" -> <<"context", "display">>
    [] b = "GLX" -> <<"current", "context", "drawable", "display">>
    [] b = "CGL" -> <<"current", "context">>
    [] OTHER -> <<>>

\* C3 (as stated): a constructed and then destroyed object of any backend has
\* released its native resources in exactly the reverse of the order in which
\* its constructor acquired them.
C3_Original ==
  \A i \in Inst : pc[i] = "destroyed" => Released(i) = Reverse(Acquired(i))

\* C3 (amended): the destructors release in these orders: CGL and GLFW in exactly
\* the reverse order of acquisition; GLX current binding, context, drawable,
\* display (the context before the drawable that was created after it); EGL
\* context, display, the current binding not being released.  In every backend
\* the display or library acquired first is released last.
C3_TeardownOrder ==
  \A i \in Inst :
    pc[i] = "destroyed" =>
      /\ Released(i) =
           SelectSeq(TeardownOrder(backend[i]), LAMBDA r : r \in Range(Acquired(i)))
      /\ backend[i] \in {"CGL", "GLFW"} => Released(i) = Reverse(Acquired(i))
      /\ backend[i] # "CGL" => Last(Released(i)) = Head(Acquired(i))

\* a GLX object, all four resources acquired, destroyed
C3_Witness ==
  \E i \in Inst :
    /\ backend[i] = "GLX" /\ pc[i] = "destroyed"
    /\ Acquired(i) = <<"display", "context", "drawable", "current">>
    /\ Released(i) = <<"current", "context", "drawable", "display">>

\* the constructor of object i has done all it is there for
FullyConstructed(i) ==
  /\ CtxHandle(i) = "live"
  /\ current[i]
  /\ viewport[i] = <<0, 0, self[i].win_size_[1], self[i].win_size_[2]>>

\* C4 (as stated): a constructor that returns has created its context, made it
\* current on the calling thread and applied the viewport; and once error_exit
\* has been called nothing more happens.
C4_Original ==
  [][/\ \A i \in Inst : (pc[i] = "init" /\ pc'[i] = "alive") => FullyConstructed(i)'
     /\ proc # "running" => UNCHANGED vars]_vars

\* C8: the step that destroys a windowed context leaves the GLFW library
\* terminated and no window of the process alive, whatever other windowed
\* contexts exist.
C8_GlobalTeardown ==
  [][\A i \in Inst :
       (backend[i] = "GLFW" /\ pc[i] = "alive" /\ pc'[i] = "destroyed") =>
         /\ ~glfwLib'
         /\ \A j \in Inst : self'[j].window_ # "live"]_vars

\* two windowed contexts constructed, one destroyed: the other is still alive,
\* its window destroyed and the library terminated
C8_Witness ==
  \E i, j \in Inst :
    /\ i # j /\ backend[i] = "GLFW" /\ backend[j] = "GLFW"
    /\ pc[i] = "destroyed" /\ pc[j] = "alive"
    /\ "glfwCreateWindow" \in Range(calls[j])
    /\ ~glfwLib /\ self[j].window_ = "destroyed"

\* thread i executes its fetch_add in this step
Increments(i) == backend[i] = "EGL" /\ pc[i] = "egl_inc" /\ pc'[i] # "egl_inc"

\* C9: whatever the other threads are doing, a thread's fetch_add raises the
\* counter by one from the value it has at that moment, and no other step changes
\* the counter: no update is lost or overwritten.
C9_NoLostUpdate ==
  [][/\ \A i \in Inst : Increments(i) => counter' = counter + 1
     /\ (\A i \in Inst : ~Increments(i)) => counter' = counter]_vars

\* two threads were at the increment together and both updates are there
C9_Witness ==
  \E i, j \in Inst :
    /\ i # j /\ backend[i] = "EGL" /\ backend[j] = "EGL"
    /\ pc[i] = "egl_getproc" /\ pc[j] = "egl_getproc"
    /\ counter = 2

\* C10: the geometry stored at construction never changes, the constructor's
\* init() and every later init() leave the viewport arguments at
\* (0, 0, width, height) of that geometry.
C10_GeometryViewport ==
  [][\A i \in Inst :
       /\ backend[i] # "none" => self'[i].win_size_ = self[i].win_size_
       /\ (pc[i] = "init" /\ pc'[i] = "alive") =>
            viewport'[i] = <<0, 0, self[i].win_size_[1], self[i].win_size_[2]>>
       /\ viewport'[i] # <<>> =>
            viewport'[i] = <<0, 0, self[i].win_size_[1], self[i].win_size_[2]>>]_vars

\* a context of geometry 2 x 1 after printInfo(): geometry and viewport as given
C10_Witness ==
  \E i \in Inst :
    /\ pc[i] = "alive" /\ diag[i] = 1
    /\ self[i].win_size_ = <<2, 1>> /\ viewport[i] = <<0, 0, 2, 1>>

\* The construction stage a successful constructor call belongs to ("" for a
\* call that creates or selects no handle).  glfwCreateWindow creates the window
\* and its context in one call.
StageOf(c) ==
  CASE c \in {"glfwInit", "XOpenDisplay", "eglQueryDevicesEXT", "eglGetPlatformDisplayEXT",
              "eglInitialize"} -> "display"
    [] c \in {"eglChooseConfig", "glXChooseFBConfig", "CGLChoosePixelFormat"} -> "config"
    [] c = "glXCreatePbuffer" -> "drawable"
    [] c = "glfwCreateWindow" -> "window"
    [] c \in {"eglCreateContext", "glXCreateContextAttribsARB", "CGLCreateContext"} -> "context"
    [] c \in {"glfwMakeContextCurrent", "eglMakeCurrent", "glXMakeContextCurrent",
              "CGLSetCurrentContext"} -> "current"
    [] OTHER -> ""

\* the stages object i's constructor went through, in order
Stages(i) ==
  SelectSeq([k \in 1..Len(calls[i]) |-> StageOf(calls[i][k])], LAMBDA r : r # "")

\* the order "display, configuration, surface/drawable, context, make-current"
SurfaceFirst ==
  [display |-> 1, config |-> 2, drawable |-> 3, window |-> 3, context |-> 4, current |-> 5]
\* the order "display, configuration, context, drawable, make-current"
ContextFirst ==
  [display |-> 1, config |-> 2, context |-> 3, window |-> 3, drawable |-> 4, current |-> 5]

\* the stages of seq follow one another in the order rank gives them
InOrder(seq, rank) == \A a, b \in 1..Len(seq) : a < b => rank[seq[a]] <= rank[seq[b]]

\* C11 (as stated): every constructor creates its handles in the order
\* display selection, configuration, surface/drawable, context, make-current; no
\* backend creates its context before its drawable.
C11_Original == \A i \in Inst : InOrder(Stages(i), SurfaceFirst)

\* C11 (amended): every constructor creates its handles in the order display
\* selection, configuration, context, make-current; the one drawable created by
\* a call of its own, the GLX pbuffer, is created after the GLX context and
\* before make-current; EGL creates no surface; a constructor that returns
\* with a context bound went through display selection or configuration, then
\* context creation, then make-current.
C11_CreationOrder ==
  \A i \in Inst :
    /\ InOrder(Stages(i), ContextFirst)
    /\ backend[i] = "EGL" => Range(Stages(i)) \cap {"drawable", "window"} = {}
    /\ (pc[i] = "init" /\ current[i]) =>
         /\ Range(Stages(i)) \cap {"display", "config"} # {}
         /\ Range(Stages(i)) \cap {"context", "window"} # {}
         /\ Last(Stages(i)) = "current"

\* a GLX constructor about to return: display, configuration, context, pbuffer,
\* make-current
C11_Witness ==
  \E i \in Inst :
    /\ backend[i] = "GLX" /\ pc[i] = "init"
    /\ Stages(i) = <<"display", "config", "context", "drawable", "current">>

\* the context-creation calls of the four backends, as logged when they fail
ContextCreationFailed ==
  {"glfwCreateWindow:fail", "eglCreateContext:fail", "glXCreateContextAttribsARB:fail",
   "CGLCreateContext:fail"}

\* C12 (as stated): in every backend a failed context-creation call is followed
\* directly by error_exit: it is the last native call of the process, no
\* drawable creation, display sync or make-current comes after it.
C12_Original ==
  \A i \in Inst :
    \A k \in 1..Len(calls[i]) :
      calls[i][k] \in ContextCreationFailed =>
        /\ proc = "exited"
        /\ k + 1 = Len(calls[i])
        /\ calls[i][k + 1] = "error_exit"

\* position of the first call named c in object i's log, 0 when there is none
Pos(i, c) ==
  IF c \in Range(calls[i])
  THEN CHOOSE k \in 1..Len(calls[i]) :
         calls[i][k] = c /\ \A j \in 1..(k - 1) : calls[i][j] # c
  ELSE 0

\* the calls of object i's destructor: what follows the constructor's init()
Dtor(i) ==
  IF Pos(i, "glViewport") = 0 THEN <<>>
  ELSE SubSeq(calls[i], Pos(i, "glViewport") + 1, Len(calls[i]))

IsPrefix(s, t) == Len(s) <= Len(t) /\ s = SubSeq(t, 1, Len(s))

\* the handles of the object a call of the EGL or GLX backend is given
UsedBy(c) ==
  CASE c \in {"eglInitialize", "eglChooseConfig", "eglCreateContext",
              "glXChooseFBConfig", "glXCreateContextAttribsARB", "glXCreatePbuffer",
              "XSync", "glXMakeContextCurrent(None)", "eglTerminate", "XCloseDisplay"}
         -> {"display"}
    [] c \in {"eglMakeCurrent", "eglDestroyContext", "glXDestroyContext"}
         -> {"display", "context"}
    [] c = "glXMakeContextCurrent" -> {"display", "context", "drawable"}
    [] c = "glXDestroyPbuffer" -> {"display", "drawable"}
    [] OTHER -> {}

\* ~GLXHeadlessContext(), statement by statement
GLXDestructor ==
  <<"glXMakeContextCurrent(None)", "glXDestroyContext", "glXDestroyPbuffer", "XCloseDisplay">>

C14_Original ==
  \A i \in Inst :
    Selected(i) =>
      /\ 0 <= loc[i].device /\ loc[i].device < loc[i].numDevices
      /\ Len(loc[i].visible_devices) # loc[i].numDevices =>
           (0 <= loc[i].arg /\ loc[i].arg < Len(loc[i].visible_devices))

\* the GLX constructor is past glXChooseFBConfig and its locals are in scope
GLXAfterQuery == {"glx_getproc", "glx_context", "glx_pbuffer", "glx_sync", "glx_current", "init"}
\* the calls that are handed fbc[0]
TakesFirstConfig ==
  {"glXCreateContextAttribsARB", "glXCreateContextAttribsARB:fail",
   "glXCreatePbuffer", "glXCreatePbuffer:fail"}

\* C15 (as stated): when glXChooseFBConfig returned no configuration the GLX
\* constructor has aborted with error_exit and fbc[0] was handed to no call;
\* fbc[0] is read only when there is at least one configuration.
C15_Original ==
  \A i \in Inst :
    (backend[i] = "GLX" /\ pc[i] \in GLXAfterQuery /\ loc[i].nfbc = 0) =>
      /\ Exited(i)
      /\ Range(calls[i]) \cap TakesFirstConfig = {}

\* C16 (as stated): once the destructor of an object of any backend has run,
\* the context the object made current is not the current context of its thread.
C16_Original == \A i \in Inst : pc[i] = "destroyed" => ~current[i]

\* C17 (as stated): no step, in particular no step of another EGL object's
\* destructor, terminates the display of an EGL object that is alive before
\* and after the step: its display, once initialized, stays initialized for as
\* long as the object is alive.
C17_Original ==
  [][\A j \in Inst :
       (/\ backend[j] = "EGL" /\ pc[j] = "alive" /\ pc'[j] = "alive"
        /\ eglInit[self[j].eglDpy_]) => eglInit'[self[j].eglDpy_]]_vars
====
